---- MODULE Spec2Model ----
(***************************************************************************)
(* A model of gnosis-py's Ethereum client (gnosis/eth/ethereum_client.py): *)
(* the write-path error classifier, the send_unsigned_transaction retry    *)
(* loop, the batched JSON-RPC accessors and the Parity trace accessors.    *)
(***************************************************************************)
EXTENDS Integers, Sequences, FiniteSets, TLC

VARIABLES
    cls,      \* one decorated write call: send_transaction / send_raw_transaction
    call,     \* send_unsigned_transaction: per caller, its locals and position
    read      \* one read-path call: a batched accessor or a trace accessor

vars == <<cls, call, read>>

(***************************************************************************)
(* Bounds of the model.                                                    *)
(***************************************************************************)
MaxFragments == 2     \* fragments concatenated into one node error message
MaxAttempts == 8      \* submissions one call may make before the model stops it
MaxNodeNonce == 2     \* eth_getTransactionCount answers 0..MaxNodeNonce
MaxPresetNonce == 1   \* a caller's preset nonce is in 0..MaxPresetNonce
MaxBatch == 2         \* a batched accessor is given at most MaxBatch items
MaxTraces == 2        \* the node answers a trace query with at most MaxTraces entries

(***************************************************************************)
(* Python strings.  A message is a TLA+ string; str.lower() and the `in`   *)
(* substring test are computed character by character.                     *)
(***************************************************************************)
LowerChar(c) ==
    CASE c = "A" -> "a" [] c = "B" -> "b" [] c = "C" -> "c" [] c = "D" -> "d"
      [] c = "E" -> "e" [] c = "F" -> "f" [] c = "G" -> "g" [] c = "H" -> "h"
      [] c = "I" -> "i" [] c = "J" -> "j" [] c = "K" -> "k" [] c = "L" -> "l"
      [] c = "M" -> "m" [] c = "N" -> "n" [] c = "O" -> "o" [] c = "P" -> "p"
      [] c = "Q" -> "q" [] c = "R" -> "r" [] c = "S" -> "s" [] c = "T" -> "t"
      [] c = "U" -> "u" [] c = "V" -> "v" [] c = "W" -> "w" [] c = "X" -> "x"
      [] c = "Y" -> "y" [] c = "Z" -> "z" [] OTHER -> c

\* the characters lo..hi of s, each lowered (halving keeps the evaluation shallow)
RECURSIVE LowerRange(_, _, _)
LowerRange(s, lo, hi) ==
    IF lo > hi THEN ""
    ELSE IF lo = hi THEN LowerChar(SubSeq(s, lo, lo))
    ELSE LET mid == (lo + hi) \div 2
         IN  LowerRange(s, lo, mid) \o LowerRange(s, mid + 1, hi)

\* str.lower()
Lower(s) == LowerRange(s, 1, Len(s))

\* Python's `sub in s` on strings
StrIn(sub, s) ==
    \E i \in 1..(Len(s) - Len(sub) + 1) : SubSeq(s, i, i + Len(sub) - 1) = sub

(***************************************************************************)
(* tx_with_exception_handling: the table, in declaration order (a dict     *)
(* iterates in insertion order), and the wrapper.                          *)
(***************************************************************************)
error_with_exception == <<
    [reason |-> "Transaction with the same hash was already imported",
     exception |-> "TransactionAlreadyImported"],
    [reason |-> "replacement transaction underpriced",
     exception |-> "ReplacementTransactionUnderpriced"],
    [reason |-> "There is another transaction with same nonce in the queue",
     exception |-> "ReplacementTransactionUnderpriced"],
    [reason |-> "from not found", exception |-> "FromAddressNotFound"],
    [reason |-> "correct nonce", exception |-> "InvalidNonce"],
    [reason |-> "nonce too low", exception |-> "NonceTooLow"],
    [reason |-> "insufficient funds", exception |-> "InsufficientFunds"],
    [reason |-> "doesn't have enough funds", exception |-> "InsufficientFunds"],
    [reason |-> "sender account not recognized",
     exception |-> "SenderAccountNotFoundInNode"],
    [reason |-> "unknown account", exception |-> "UnknownAccount"],
    [reason |-> "Transaction cost exceeds current gas limit",
     exception |-> "GasLimitExceeded"],
    [reason |-> "exceeds block gas limit", exception |-> "GasLimitExceeded"] >>

\* What a call gives back: a value returned or an exception raised.
Return(v) == [kind |-> "return", value |-> v, type |-> "", msg |-> ""]
Raise(t, m) == [kind |-> "raise", value |-> <<>>, type |-> t, msg |-> m]

\* `reason.lower() in str_exc`, the loop's test
ReasonMatchesCaseSensitive(reason, str_exc) == StrIn(reason, str_exc)
ReasonMatches(reason, str_exc) == StrIn(Lower(reason), str_exc)

\* the for loop over error_with_exception.items(): the first match raises,
\* and falling off the end re-raises exc
RECURSIVE ClassifyFrom(_, _, _)
ClassifyFrom(i, str_exc, exc) ==
    IF i > Len(error_with_exception) THEN exc
    ELSE IF ReasonMatches(error_with_exception[i].reason, str_exc)
         THEN Raise(error_with_exception[i].exception, exc.msg)
         ELSE ClassifyFrom(i + 1, str_exc, exc)

\* a loop that lets a later match overwrite an earlier one
RECURSIVE ClassifyLastFrom(_, _, _)
ClassifyLastFrom(i, str_exc, exc) ==
    IF i < 1 THEN exc
    ELSE IF ReasonMatches(error_with_exception[i].reason, str_exc)
         THEN Raise(error_with_exception[i].exception, exc.msg)
         ELSE ClassifyLastFrom(i - 1, str_exc, exc)

ClassifyLastMatch(exc) ==
    ClassifyLastFrom(Len(error_with_exception), Lower(exc.msg), exc)

\* the except clause's body
Classify(exc) == ClassifyFrom(1, Lower(exc.msg), exc)

\* with_exception_handling(*args): `outcome` is what func did
with_exception_handling(outcome) ==
    IF outcome.kind = "raise" /\ outcome.type = "ValueError"
    THEN Classify(outcome)
    ELSE outcome

(***************************************************************************)
(* The node's answers to eth_sendTransaction / eth_sendRawTransaction.     *)
(***************************************************************************)
Fragments == {
    "Transaction with the same hash was already imported",
    "replacement transaction underpriced",
    "There is another transaction with same nonce in the queue",
    "from not found",
    "correct nonce",
    "nonce too low",
    "Nonce Too Low",
    "INSUFFICIENT FUNDS",
    "doesn't have enough funds",
    "sender account not recognized",
    "Unknown Account",
    "Transaction cost exceeds current gas limit",
    "exceeds block gas limit",
    "transaction cost EXCEEDS BLOCK GAS LIMIT",
    "in", " ", " too low", "execution reverted", "gas limit", "nonce" }

RECURSIVE Concat(_)
Concat(fs) == IF fs = <<>> THEN "" ELSE Head(fs) \o Concat(Tail(fs))

Messages ==
    { Concat(fs) : fs \in UNION { [1..n -> Fragments] : n \in 1..MaxFragments } }

\* what the wrapped web3 call does: a hash back, a ValueError carrying the
\* node's error, or a failure of the transport
NodeFailures(msgs) ==
    { Raise("ValueError", m) : m \in msgs } \cup {Raise("ConnectionError", "")}

NodeOutcomes(h, msgs) == {Return(h)} \cup NodeFailures(msgs)

ClsIdle == [pc |-> "idle", func |-> "", node |-> Return(<<>>), out |-> Return(<<>>)]

\* send_transaction(transaction_dict)
send_transaction(node_outcome) == with_exception_handling(node_outcome)

\* send_raw_transaction(raw_transaction)
send_raw_transaction(node_outcome) == with_exception_handling(node_outcome)

SendTransaction ==
    /\ cls.pc = "idle"
    /\ \E o \in NodeOutcomes(<<"hash">>, Messages) :
          cls' = [pc |-> "done", func |-> "send_transaction", node |-> o,
                  out |-> send_transaction(o)]
    /\ UNCHANGED <<call, read>>

SendRawTransaction ==
    /\ cls.pc = "idle"
    /\ \E o \in NodeOutcomes(<<"hash">>, Messages) :
          cls' = [pc |-> "done", func |-> "send_raw_transaction", node |-> o,
                  out |-> send_raw_transaction(o)]
    /\ UNCHANGED <<call, read>>

InitClassify ==
    /\ cls = ClsIdle
    /\ call = <<>>
    /\ read = <<>>

NextClassify == SendTransaction \/ SendRawTransaction

SpecClassify == InitClassify /\ [][NextClassify]_vars

(***************************************************************************)
(* Properties of the classifier.                                           *)
(***************************************************************************)
ClassifiedKinds == { error_with_exception[i].exception :
                        i \in 1..Len(error_with_exception) }

\* sub occurs in s, letter case ignored, compared character by character
OccursIgnoringCase(sub, s) ==
    \E i \in 1..(Len(s) - Len(sub) + 1) :
        \A j \in 1..Len(sub) :
            LowerChar(SubSeq(sub, j, j)) = LowerChar(SubSeq(s, i + j - 1, i + j - 1))

\* the table entries whose substring occurs in the message
Matching(msg) ==
    { i \in 1..Len(error_with_exception) :
        OccursIgnoringCase(error_with_exception[i].reason, msg) }

FirstOf(S) == CHOOSE i \in S : \A j \in S : i <= j

NodeErrorSurfaced ==
    cls.pc = "done" /\ cls.node.kind = "raise" /\ cls.node.type = "ValueError"

\* C9 as stated: every failure surfaced for a node error is one of the nine
\* classified kinds; the node's raw error is never propagated.
C9_AlwaysClassified ==
    NodeErrorSurfaced =>
        cls.out.kind = "raise" /\ cls.out.type \in ClassifiedKinds

\* C9 amended: a node error surfaced by send_transaction or
\* send_raw_transaction is one of the nine classified kinds exactly when a
\* table substring occurs in its message; otherwise the node's own error is
\* propagated unchanged.
C9_ClassifiedIffMatched ==
    NodeErrorSurfaced =>
        /\ cls.out.kind = "raise"
        /\ cls.out.msg = cls.node.msg
        /\ IF Matching(cls.node.msg) # {}
           THEN cls.out.type \in ClassifiedKinds
           ELSE cls.out = cls.node

C9_Witness ==
    /\ NodeErrorSurfaced
    /\ cls.func = "send_raw_transaction"
    /\ Matching(cls.node.msg) = {}
    /\ cls.out = cls.node
    /\ cls.out.type \notin ClassifiedKinds

\* C10: the classifier raises the kind of the first table entry, in
\* declaration order, whose substring occurs in the message ignoring case;
\* when none occurs the original failure is re-raised unchanged.
C10_FirstMatchWins ==
    NodeErrorSurfaced =>
        IF Matching(cls.node.msg) = {}
        THEN cls.out = cls.node
        ELSE cls.out = Raise(error_with_exception[FirstOf(Matching(cls.node.msg))].exception,
                             cls.node.msg)

C10_Witness ==
    /\ NodeErrorSurfaced
    /\ OccursIgnoringCase("correct nonce", cls.node.msg)
    /\ OccursIgnoringCase("nonce too low", cls.node.msg)
    /\ cls.out.type = "InvalidNonce"

(***************************************************************************)
(* send_unsigned_transaction.  call[c] holds the arguments and locals of   *)
(* caller c's invocation, its position (pc), what it gave back (out) and   *)
(* a log of its dealings with the node.                                    *)
(***************************************************************************)
None == <<>>
Some(n) == <<n>>

Max(a, b) == IF a >= b THEN a ELSE b

\* EthereumClient.private_key_to_address
private_key_to_address(private_key) ==
    CASE private_key = "keyA" -> "0xA"
      [] private_key = "keyB" -> "0xB"

\* the hash of the transaction with these fields from this sender, which is
\* signed_tx.hash and what the node answers on accepting it
TxHash(address, nonce) == <<"hash", address, nonce>>

\* the node's errors on a submission, one message per way the loop treats it
NodeErrors == {
    "Transaction with the same hash was already imported.",
    "replacement transaction underpriced",
    "the tx doesn't have the correct nonce. account has nonce of: 1 tx has nonce of: 0",
    "Transaction nonce is too low. Try incrementing the nonce.",
    "nonce too low",
    "from not found",
    "insufficient funds for gas * price + value",
    "sender account not recognized",
    "unknown account",
    "exceeds block gas limit",
    "execution reverted" }

\* what send_raw_transaction / send_transaction give back for each failure
\* of the node, and for a transaction with hash h
send_raw_transaction_failures ==
    { send_raw_transaction(o) : o \in NodeFailures(NodeErrors) }

send_transaction_failures ==
    { send_transaction(o) : o \in NodeFailures(NodeErrors) }

SendRawOutcomes(h) == {send_raw_transaction(Return(h))} \cup send_raw_transaction_failures

SendOutcomes(h) == {send_transaction(Return(h))} \cup send_transaction_failures

CallIdle ==
    [pc |-> "idle",
     tx |-> [nonce |-> None, from |-> ""],
     given |-> [nonce |-> None, from |-> ""],   \* tx as the caller passed it
     private_key |-> "", public_key |-> "", retry |-> FALSE,
     block_identifier |-> "pending",
     address |-> "", number_errors |-> 0, current_nonce |-> 0,
     e |-> Return(None), out |-> Return(None),
     \* the log
     attempts |-> 0, sent |-> None, raw |-> FALSE, last |-> Return(None),
     nonce_fetches |-> 0,
     refetches |-> 0, fetched |-> None, fetch_args |-> None,
     in_fails |-> 0, ru_fails |-> 0]

\* line 853
InitialNumberErrors == 5

\* `while number_errors >= 0`
LoopCondition(number_errors) == number_errors >= 0

\* `if not retry or not number_errors: raise e`
GivesUpOnlyWhenExhausted(retry, number_errors) == number_errors = 0
GivesUpOnlyWithoutRetry(retry, number_errors) == ~retry
GivesUp(retry, number_errors) == ~retry \/ number_errors = 0

\* `max(current_nonce + 1, get_nonce_for_account(...))`
BumpedNonceIgnoringCurrent(current_nonce, fetched_nonce) == fetched_nonce
BumpedNonce(current_nonce, fetched_nonce) == Max(current_nonce + 1, fetched_nonce)

\* `number_errors -= 1`, in the InvalidNonce handler only
BudgetNotCharged(number_errors) == number_errors
BudgetAfterInvalidNonce(number_errors) == number_errors - 1

\* the `else:` of the key resolution (lines 846-848)
NoIdentityNeverRaised(private_key, public_key) == FALSE
NoIdentity(private_key, public_key) == private_key = "" /\ public_key = ""

\* `if tx.get('nonce') is None`
NonceFalsy(nonce) == nonce = None \/ nonce = Some(0)
NonceUnset(nonce) == nonce = None

\* lines 842-851 up to the node's answer: resolve the sender, then either ask
\* the node for the nonce or enter the loop with the caller's
send_unsigned_transaction(c) ==
    /\ call[c].pc = "idle"
    /\ \E private_key \in {"", "keyA"}, public_key \in {"", "0xB"},
          retry \in BOOLEAN, block_identifier \in {"pending", "latest"},
          nonce \in {None} \cup { Some(n) : n \in 0..MaxPresetNonce } :
          LET args == [call[c] EXCEPT !.private_key = private_key,
                                      !.public_key = public_key,
                                      !.retry = retry,
                                      !.block_identifier = block_identifier,
                                      !.tx.nonce = nonce,
                                      !.given.nonce = nonce]
          IN  IF private_key # ""
              THEN call' = [call EXCEPT ![c] =
                     [args EXCEPT !.address = private_key_to_address(private_key),
                                  !.number_errors =
                                      IF NonceUnset(nonce) THEN 0 ELSE InitialNumberErrors,
                                  !.pc = IF NonceUnset(nonce) THEN "get_nonce" ELSE "loop"]]
              ELSE IF ~NoIdentity(private_key, public_key)
              THEN call' = [call EXCEPT ![c] =
                     [args EXCEPT !.address = public_key,
                                  !.number_errors =
                                      IF NonceUnset(nonce) THEN 0 ELSE InitialNumberErrors,
                                  !.pc = IF NonceUnset(nonce) THEN "get_nonce" ELSE "loop"]]
              ELSE call' = [call EXCEPT ![c] =
                     [args EXCEPT !.pc = "raised",
                                  !.out = Raise("ValueError",
                                      "Ethereum account was not configured or unlocked in the node")]]
    /\ UNCHANGED <<cls, read>>

\* `tx['nonce'] = ...` (lines 851, 874, 883): the caller's dict is written to
KeepingFirstNonce(tx, nonce) ==
    IF tx.nonce = None THEN [tx EXCEPT !.nonce = Some(nonce)] ELSE tx
WithNonce(tx, nonce) == [tx EXCEPT !.nonce = Some(nonce)]

\* line 851: tx['nonce'] = self.get_nonce_for_account(address, block_identifier)
GetNonce(c) ==
    /\ call[c].pc = "get_nonce"
    /\ \E n \in 0..MaxNodeNonce :
          call' = [call EXCEPT ![c] =
             [@ EXCEPT !.tx = WithNonce(@, n),
                       !.number_errors = InitialNumberErrors,
                       !.nonce_fetches = @ + 1,
                       !.fetched = Some(n),
                       !.fetch_args = <<call[c].address, call[c].block_identifier>>,
                       !.pc = "loop"]]
    /\ UNCHANGED <<cls, read>>

\* where an attempt's outcome takes the call (lines 860-884, up to the next
\* request to the node)
\* `except TransactionAlreadyImported`, which only the private-key branch has
AlreadyImportedNeverCaught(s, outcome) == FALSE
AlreadyImportedCaughtOnBothPaths(s, outcome) ==
    outcome.type = "TransactionAlreadyImported"
AlreadyImportedCaught(s, outcome) ==
    outcome.type = "TransactionAlreadyImported" /\ s.raw

AfterAttempt(s, outcome) ==
    IF outcome.kind = "return"
    THEN [s EXCEPT !.pc = "returned", !.out = outcome]
    ELSE IF AlreadyImportedCaught(s, outcome)
    THEN \* return signed_tx.hash
         [s EXCEPT !.pc = "returned",
                   !.out = Return(TxHash(s.address, s.sent[1]))]
    ELSE IF outcome.type = "ReplacementTransactionUnderpriced"
    THEN IF GivesUp(s.retry, s.number_errors)
         THEN [s EXCEPT !.pc = "raised", !.out = outcome, !.ru_fails = @ + 1]
         ELSE [s EXCEPT !.pc = "replacement_underpriced", !.e = outcome,
                        !.current_nonce = s.tx.nonce[1], !.ru_fails = @ + 1]
    ELSE IF outcome.type = "InvalidNonce"
    THEN IF GivesUp(s.retry, s.number_errors)
         THEN [s EXCEPT !.pc = "raised", !.out = outcome, !.in_fails = @ + 1]
         ELSE [s EXCEPT !.pc = "invalid_nonce", !.e = outcome, !.in_fails = @ + 1]
    ELSE [s EXCEPT !.pc = "raised", !.out = outcome]

\* lines 854-869: one pass of the loop body's try block
Submit(c) ==
    /\ call[c].pc = "loop"
    /\ LoopCondition(call[c].number_errors)
    /\ call[c].attempts < MaxAttempts
    /\ LET s == call[c]
           h == TxHash(s.address, s.tx.nonce[1])
       IN  IF s.private_key # ""
           THEN \* sign locally, send_raw_transaction(signed_tx.rawTransaction)
                \E outcome \in SendRawOutcomes(h) :
                   call' = [call EXCEPT ![c] =
                      AfterAttempt([s EXCEPT !.attempts = @ + 1,
                                             !.sent = s.tx.nonce,
                                             !.raw = TRUE,
                                             !.last = outcome],
                                   outcome)]
           ELSE \* tx['from'] = address; send_transaction(tx)
                \E outcome \in SendOutcomes(h) :
                   call' = [call EXCEPT ![c] =
                      AfterAttempt([s EXCEPT !.attempts = @ + 1,
                                             !.sent = s.tx.nonce,
                                             !.raw = FALSE,
                                             !.last = outcome,
                                             !.tx.from = s.address],
                                   outcome)]
    /\ UNCHANGED <<cls, read>>

\* lines 873-877: the ReplacementTransactionUnderpriced handler's refetch
RetryReplacementUnderpriced(c) ==
    /\ call[c].pc = "replacement_underpriced"
    /\ \E n \in 0..MaxNodeNonce :
          call' = [call EXCEPT ![c] =
             [@ EXCEPT !.tx = WithNonce(@, BumpedNonce(call[c].current_nonce, n)),
                       !.refetches = @ + 1,
                       !.fetched = Some(n),
                       !.fetch_args = <<call[c].address, call[c].block_identifier>>,
                       !.pc = "loop"]]
    /\ UNCHANGED <<cls, read>>

\* lines 881-884: the InvalidNonce handler's refetch
RetryInvalidNonce(c) ==
    /\ call[c].pc = "invalid_nonce"
    /\ \E n \in 0..MaxNodeNonce :
          call' = [call EXCEPT ![c] =
             [@ EXCEPT !.tx = WithNonce(@, n),
                       !.number_errors = BudgetAfterInvalidNonce(@),
                       !.refetches = @ + 1,
                       !.fetched = Some(n),
                       !.fetch_args = <<call[c].address, call[c].block_identifier>>,
                       !.pc = "loop"]]
    /\ UNCHANGED <<cls, read>>

Init ==
    /\ cls = <<>>
    /\ call = [c \in {1} |-> CallIdle]
    /\ read = <<>>

Next ==
    \/ \E c \in DOMAIN call : send_unsigned_transaction(c)
    \/ \E c \in DOMAIN call : GetNonce(c)
    \/ \E c \in DOMAIN call : Submit(c)
    \/ \E c \in DOMAIN call : RetryReplacementUnderpriced(c)
    \/ \E c \in DOMAIN call : RetryInvalidNonce(c)

Spec == Init /\ [][Next]_vars

(***************************************************************************)
(* Properties of send_unsigned_transaction.                                *)
(***************************************************************************)
Retriable == {"ReplacementTransactionUnderpriced", "InvalidNonce"}

Failed(s) == s.attempts >= 1 /\ s.last.kind = "raise"

Finished(s) == s.pc \in {"returned", "raised"}

\* C1 as stated: a call makes at most 6 submission attempts (1 initial and 5
\* retries), whatever the node answers.
C1_AtMostSixAttempts ==
    \A c \in DOMAIN call : call[c].attempts <= InitialNumberErrors + 1

\* C2: with retry, k InvalidNonce failures (and no other) followed by an
\* accepted attempt return that attempt's hash after exactly k refetches and k
\* units of the budget, each resubmission carrying the nonce just refetched;
\* the 6th consecutive InvalidNonce is raised and nothing more is submitted.
C2_InvalidNonceRetries ==
    \A c \in DOMAIN call :
        LET s == call[c]
        IN  (s.retry /\ s.ru_fails = 0 /\ s.attempts >= 1) =>
              /\ s.in_fails <= InitialNumberErrors + 1
              /\ s.pc \in {"loop", "returned"} =>
                    /\ s.refetches = s.in_fails
                    /\ s.number_errors = InitialNumberErrors - s.in_fails
                    /\ s.in_fails >= 1 =>
                          (IF s.pc = "loop" THEN s.tx.nonce ELSE s.sent) = s.fetched
              /\ s.pc = "returned" =>
                    /\ s.in_fails <= InitialNumberErrors
                    /\ s.attempts = s.in_fails + 1
                    /\ s.out = Return(TxHash(s.address, s.sent[1]))
                    /\ s.tx.nonce = s.sent
              /\ s.in_fails = InitialNumberErrors + 1 =>
                    /\ s.pc = "raised"
                    /\ s.out.type = "InvalidNonce"
                    /\ s.attempts = InitialNumberErrors + 1
                    /\ s.refetches = InitialNumberErrors

C2_Witness ==
    \E c \in DOMAIN call :
        /\ call[c].retry /\ call[c].pc = "returned"
        /\ call[c].ru_fails = 0 /\ call[c].in_fails = 2
        /\ call[c].attempts = 3 /\ call[c].number_errors = 3
        /\ call[c].last.kind = "return"

\* C3: with retry, after an attempt carrying nonce n fails with
\* ReplacementUnderpriced the next attempt carries max(n + 1, f), f being the
\* nonce fetched after the failure; so the submitted nonce strictly increases.
C3_ReplacementBumpsNonce ==
    [][\A c \in DOMAIN call :
          ( /\ call[c].attempts >= 1
            /\ call'[c].attempts = call[c].attempts + 1
            /\ call[c].last.kind = "raise"
            /\ call[c].last.type = "ReplacementTransactionUnderpriced" ) =>
              /\ call[c].retry
              /\ call'[c].sent = Some(Max(call[c].sent[1] + 1, call[c].fetched[1]))
              /\ call'[c].sent[1] > call[c].sent[1]]_vars

C3_Witness ==
    \E c \in DOMAIN call :
        /\ call[c].attempts >= 2
        /\ call[c].e.kind = "raise"
        /\ call[c].e.type = "ReplacementTransactionUnderpriced"
        /\ call[c].ru_fails = call[c].attempts - 1
        /\ call[c].sent[1] > call[c].fetched[1]
        /\ call[c].pc = "returned"

C5_AlreadyImportedReturnsSignedHash ==
    /\ [](\A c \in DOMAIN call :
            ( /\ Failed(call[c])
              /\ call[c].private_key # ""
              /\ call[c].last.type = "TransactionAlreadyImported" ) =>
                /\ call[c].pc = "returned"
                /\ call[c].out = Return(TxHash(private_key_to_address(call[c].private_key),
                                               call[c].sent[1])))
    /\ [][\A c \in DOMAIN call :
            ( /\ Failed(call[c])
              /\ call[c].private_key # ""
              /\ call[c].last.type = "TransactionAlreadyImported" ) =>
                call'[c] = call[c]]_vars

C5_Witness ==
    \E c \in DOMAIN call :
        /\ call[c].private_key # "" /\ call[c].attempts = 2
        /\ call[c].last.kind = "raise"
        /\ call[c].last.type = "TransactionAlreadyImported"
        /\ call[c].pc = "returned"
        /\ call[c].out = Return(TxHash("0xA", call[c].sent[1]))

\* C12: a call given neither a private key nor a public key raises the
\* no-account ValueError at once: no nonce is fetched, nothing is submitted,
\* the caller's tx is as it was passed, and the call takes no further step.
C12_NoIdentityFailsFirst ==
    /\ [](\A c \in DOMAIN call :
            ( /\ call[c].pc # "idle"
              /\ call[c].private_key = "" /\ call[c].public_key = "" ) =>
                /\ call[c].pc = "raised"
                /\ call[c].out = Raise("ValueError",
                      "Ethereum account was not configured or unlocked in the node")
                /\ call[c].nonce_fetches = 0 /\ call[c].refetches = 0
                /\ call[c].fetched = None
                /\ call[c].attempts = 0 /\ call[c].sent = None
                /\ call[c].tx = call[c].given)
    /\ [][\A c \in DOMAIN call :
            ( /\ call[c].pc # "idle"
              /\ call[c].private_key = "" /\ call[c].public_key = "" ) =>
                call'[c] = call[c]]_vars

C12_Witness ==
    \E c \in DOMAIN call :
        /\ call[c].private_key = "" /\ call[c].public_key = ""
        /\ call[c].pc = "raised" /\ call[c].out.type = "ValueError"
        /\ call[c].given.nonce = None /\ call[c].tx.nonce = None
        /\ call[c].retry

\* C13: the nonce is fetched before the first submission exactly when the
\* caller's tx has none (0 is one): then one fetch is made, for the address
\* resolved from the key and the call's block identifier, and the first
\* attempt carries its answer; otherwise no fetch is made before the first
\* attempt, which carries the caller's nonce.
C13_FetchIffNonceUnset ==
    \A c \in DOMAIN call :
        LET s == call[c]
            sender == IF s.private_key # ""
                      THEN private_key_to_address(s.private_key)
                      ELSE s.public_key
            first == IF s.attempts = 0 THEN s.tx.nonce ELSE s.sent
        IN  /\ s.pc = "get_nonce" => (s.given.nonce = None /\ s.attempts = 0)
            /\ (s.pc = "loop" \/ s.attempts >= 1) =>
                 /\ s.address = sender
                 /\ s.nonce_fetches = (IF s.given.nonce = None THEN 1 ELSE 0)
                 /\ (s.given.nonce = None /\ s.refetches = 0) =>
                       /\ s.fetched # None
                       /\ s.fetch_args = <<sender, s.block_identifier>>
                       /\ s.attempts <= 1 => first = s.fetched
                 /\ (s.given.nonce # None /\ s.attempts <= 1 /\ s.refetches = 0) =>
                       /\ first = s.given.nonce
                       /\ s.fetched = None

C13_Witness ==
    \E c \in DOMAIN call :
        /\ call[c].given.nonce = Some(0)
        /\ call[c].attempts = 1 /\ call[c].sent = Some(0)
        /\ call[c].nonce_fetches = 0 /\ call[c].fetched = None
        /\ call[c].last.kind = "return"

(***************************************************************************)
(* Several callers of send_unsigned_transaction against one node.  Each    *)
(* caller runs the steps above; the node's answers are no longer free but  *)
(* follow from its transaction pool, which holds what it accepted.         *)
(***************************************************************************)
Callers == 1..3

\* the nonces of the sender's transactions the node has accepted
Pool(address) ==
    { call[d].sent[1] : d \in { d \in DOMAIN call :
                                  /\ call[d].address = address
                                  /\ call[d].attempts >= 1
                                  /\ call[d].last.kind = "return" } }

\* the nonces callers hold for the sender between a fetch and a submission
Held(address) ==
    { call[d].tx.nonce[1] : d \in { d \in DOMAIN call :
                                      /\ call[d].address = address
                                      /\ call[d].pc = "loop" } }

\* the least n such that 0..n-1 are all in S
FirstFree(S) ==
    CHOOSE n \in 0..Cardinality(S) : n \notin S /\ \A k \in 0..(n - 1) : k \in S

\* w3.eth.getTransactionCount(address, block_identifier): with 'pending' the
\* pool's count, with 'latest' the count of those already mined
getTransactionCountReserving(address, block_identifier) ==
    {FirstFree(Pool(address) \cup Held(address))}
getTransactionCount(address, block_identifier) ==
    IF block_identifier = "pending"
    THEN {FirstFree(Pool(address))}
    ELSE 0..FirstFree(Pool(address))

\* the node's errors for a transaction whose nonce the pool already holds
\* (Parity for the same transaction, Geth and Parity for another one still
\* pending, Ganache, Parity and Geth once it is mined)
ConflictErrors == {
    "Transaction with the same hash was already imported.",
    "replacement transaction underpriced",
    "the tx doesn't have the correct nonce. account has nonce of: 1 tx has nonce of: 0",
    "Transaction nonce is too low. Try incrementing the nonce.",
    "nonce too low" }

conflict_failures ==
    { send_raw_transaction(Raise("ValueError", m)) : m \in ConflictErrors }

\* what a submission of the sender's transaction with this nonce gives back
PoolAnswers(address, nonce) ==
    IF nonce \in Pool(address)
    THEN conflict_failures
    ELSE {send_raw_transaction(Return(TxHash(address, nonce)))}

\* a caller starts a call for the one sender, signing locally and leaving
\* block_identifier at its default
CallerStarts(c) ==
    /\ send_unsigned_transaction(c)
    /\ call'[c].private_key = "keyA"
    /\ call'[c].public_key = ""
    /\ call'[c].block_identifier = "pending"

CallerGetsNonce(c) ==
    /\ GetNonce(c)
    /\ call'[c].fetched[1] \in
          getTransactionCount(call[c].address, call[c].block_identifier)

CallerSubmits(c) ==
    /\ Submit(c)
    /\ call'[c].last \in PoolAnswers(call[c].address, call[c].tx.nonce[1])

CallerRetriesReplacementUnderpriced(c) ==
    /\ RetryReplacementUnderpriced(c)
    /\ call'[c].fetched[1] \in
          getTransactionCount(call[c].address, call[c].block_identifier)

CallerRetriesInvalidNonce(c) ==
    /\ RetryInvalidNonce(c)
    /\ call'[c].fetched[1] \in
          getTransactionCount(call[c].address, call[c].block_identifier)

InitConcurrent ==
    /\ cls = <<>>
    /\ call = [c \in Callers |-> CallIdle]
    /\ read = <<>>

NextConcurrent ==
    \/ \E c \in DOMAIN call : CallerStarts(c)
    \/ \E c \in DOMAIN call : CallerGetsNonce(c)
    \/ \E c \in DOMAIN call : CallerSubmits(c)
    \/ \E c \in DOMAIN call : CallerRetriesReplacementUnderpriced(c)
    \/ \E c \in DOMAIN call : CallerRetriesInvalidNonce(c)

SpecConcurrent == InitConcurrent /\ [][NextConcurrent]_vars

\* C11: nothing serializes the callers of one sender.  A fetch or refetch is
\* answered with the pool's count whatever nonces other callers hold
\* unsubmitted, other callers keep holding theirs across it, and a submission
\* carries the nonce the caller holds, not rechecked against the pool.
C11_NoSerializationPerSender ==
    [][\A c \in DOMAIN call :
          /\ ( /\ call[c].pc \in {"get_nonce", "replacement_underpriced", "invalid_nonce"}
               /\ call'[c].pc = "loop" ) =>
                 /\ call'[c].fetched = Some(FirstFree(Pool(call[c].address)))
                 /\ \A d \in DOMAIN call \ {c} : call'[d] = call[d]
          /\ ( /\ call[c].pc = "loop"
               /\ call'[c].attempts = call[c].attempts + 1 ) =>
                 call'[c].sent = call[c].tx.nonce]_vars

\* two callers fetched the same nonce and both submitted it; the one refused
\* refetched, and the refetched nonce was taken by a third caller before the
\* resubmission, which was refused in turn
C11_Witness ==
    \E c1, c2, c3 \in DOMAIN call :
        /\ c1 # c2 /\ c2 # c3 /\ c1 # c3
        /\ call[c1].address = call[c2].address /\ call[c2].address = call[c3].address
        /\ call[c1].nonce_fetches = 1 /\ call[c1].refetches = 0
        /\ call[c1].sent = call[c1].fetched /\ call[c1].last.kind = "return"
        /\ call[c2].nonce_fetches = 1 /\ call[c2].attempts = 2
        /\ call[c2].ru_fails = 1 /\ call[c2].refetches = 1
        /\ call[c2].current_nonce = call[c1].sent[1]
        /\ call[c2].sent = call[c2].fetched
        /\ call[c2].last.kind = "raise"
        /\ call[c3].last.kind = "return" /\ call[c3].attempts = 1
        /\ call[c3].sent = call[c2].sent

(***************************************************************************)
(* Batched JSON-RPC accessors.  JSON values are records tagged by `type`;  *)
(* Null is JSON null and Python's None.                                    *)
(***************************************************************************)
Null == [type |-> "null"]

HexDigits == <<"0", "1", "2", "3", "4", "5", "6", "7",
               "8", "9", "a", "b", "c", "d", "e", "f">>

\* the digits of n in base 16, most significant first
RECURSIVE HexOf(_)
HexOf(n) ==
    IF n < 16 THEN HexDigits[n + 1] ELSE HexOf(n \div 16) \o HexDigits[(n % 16) + 1]

\* hex(n) and '0x%x' % n
hex(n) == "0x" \o HexOf(n)

DigitValue(ch) == CHOOSE d \in 0..15 : HexDigits[d + 1] = LowerChar(ch)

IsHexDigit(ch) == \E d \in 0..15 : HexDigits[d + 1] = LowerChar(ch)

RECURSIVE HexValue(_, _)
HexValue(str, k) ==
    IF k = 0 THEN 0 ELSE 16 * HexValue(str, k - 1) + DigitValue(SubSeq(str, k, k))

\* int(str, 16): an optional 0x prefix, then at least one hex digit
int16(str) ==
    LET digits == IF Len(str) >= 2 /\ Lower(SubSeq(str, 1, 2)) = "0x"
                  THEN SubSeq(str, 3, Len(str)) ELSE str
    IN  IF digits # "" /\ \A k \in 1..Len(digits) : IsHexDigit(SubSeq(digits, k, k))
        THEN Return(HexValue(digits, Len(digits)))
        ELSE Raise("ValueError", "invalid literal for int() with base 16")

\* Python truthiness of a JSON value: null and empty containers are falsy
Truthy(v) ==
    /\ v.type # "null"
    /\ v.type = "list" => v.items # <<>>

\* the payload of a batch: request i (0-based) carries id i
Payload(method, params) ==
    [i \in 1..Len(params) |-> [id |-> i - 1, method |-> method, params |-> params[i]]]

Orderings(n) == { f \in [1..n -> 1..n] : \A i, j \in 1..n : f[i] = f[j] => i = j }

\* what the node may answer to one request of a batch
TraceEntries(h) ==
    { \* a call
      [type |-> "dict", transactionHash |-> h,
       action |-> [type |-> "dict", gas |-> "0x4c40d", value |-> "0x3f"],
       result |-> [type |-> "dict", gasUsed |-> "0x5208"]],
      \* a suicide: its result is null
      [type |-> "dict", transactionHash |-> h,
       action |-> [type |-> "dict", balance |-> "0x0"],
       result |-> Null],
      \* an errored call: it has no result
      [type |-> "dict", transactionHash |-> h,
       action |-> [type |-> "dict", gas |-> "0x4c40d", value |-> "0x0"],
       error |-> "Reverted"],
      \* not a record
      [type |-> "str"] }

NodeResults(request) ==
    CASE request.method = "eth_getBalance" ->
           { [type |-> "hex", hex |-> x] : x \in {"0x", "0x0", "0x1f"} }
      [] request.method = "eth_call" ->
           { [type |-> "hex", hex |-> x] : x \in {"0x", "0x2A"} }
      [] request.method = "eth_getTransactionByHash" ->
           { Null, [type |-> "tx", hash |-> request.params[1]] }
      [] request.method = "eth_getTransactionReceipt" ->
           { Null } \cup
           { [type |-> "receipt", transactionHash |-> request.params[1], blockNumber |-> b]
               : b \in {Null, [type |-> "hex", hex |-> "0x10"]} }
      [] request.method = "eth_getBlockByNumber" ->
           { Null } \cup
           { [type |-> "block", number |-> request.params[1], extraData |-> x]
               : x \in BOOLEAN }
      [] request.method = "trace_transaction" ->
           { Null, [type |-> "list", items |-> <<>>] } \cup
           { [type |-> "list", items |-> <<t>>] : t \in TraceEntries(request.params[1]) }

\* requests.post(url, json=payload).json(): one response per request, each
\* with its request's id, in whatever order the node puts them
NodeBatchAnswers(payload) ==
    LET n == Len(payload)
        InOrder == { rs \in [1..n -> UNION { NodeResults(payload[i]) : i \in 1..n }] :
                       \A i \in 1..n : rs[i] \in NodeResults(payload[i]) }
    IN  { [k \in 1..n |-> [id |-> payload[perm[k]].id, result |-> rs[perm[k]]]]
            : rs \in InOrder, perm \in Orderings(n) }

\* web3's transaction_formatter / receipt_formatter / block_formatter
Formatted(raw) == [type |-> "AttributeDict", of |-> raw]

ReadIdle ==
    [pc |-> "idle", func |-> "", items |-> <<>>, payload |-> <<>>, posts |-> 0,
     responses |-> <<>>, out |-> Return(<<>>)]

ReadDone(func, items, payload, posts, responses, out) ==
    [pc |-> "done", func |-> func, items |-> items, payload |-> payload,
     posts |-> posts, responses |-> responses, out |-> out]

Lists(S) == UNION { [1..n -> S] : n \in 0..MaxBatch }

Hashes == {"0x1a", "0x2b", "0x3c"}
BlockNumbers == {10, 11, 255}
Tokens == {"0xT1", "0xT2", "0xT3"}

\* `if not tx_hashes: return []`
NeverShortCircuits(items) == FALSE
IsEmpty(items) == items = <<>>

\* HexBytes(tx_hash).hex()
HexBytesHex(h) == Lower(h)

\* '{:0>64}'.format(str)
ZeroPadded64(str) ==
    SubSeq("0000000000000000000000000000000000000000000000000000000000000000",
           1, 64 - Len(str)) \o str

\* get_balances, lines 203-226
balance_of_strict(data) == int16(data.result.hex)
balance_of(data) ==
    IF data.result.hex = "0x" THEN Return(0) ELSE int16(data.result.hex)

get_balances_out(erc20_addresses, responses) ==
    LET token_addresses == <<Null>> \o [i \in 1..Len(erc20_addresses) |->
                                           [type |-> "str", str |-> erc20_addresses[i]]]
        \* zip stops at the shorter of the two
        n == IF Len(responses) < Len(token_addresses)
             THEN Len(responses) ELSE Len(token_addresses)
    IN  IF \E k \in 1..n : balance_of(responses[k]).kind = "raise"
        THEN balance_of(responses[CHOOSE k \in 1..n :
                 /\ balance_of(responses[k]).kind = "raise"
                 /\ \A j \in 1..(k - 1) : balance_of(responses[j]).kind = "return"])
        ELSE Return([k \in 1..n |->
                 [token_address |-> token_addresses[k],
                  balance |-> balance_of(responses[k]).value]])

get_balances ==
    /\ read.pc = "idle"
    /\ \E erc20_addresses \in Lists(Tokens) :
         LET address == "0xAbC1"
             balance_query == [id |-> 0, method |-> "eth_getBalance",
                               params |-> <<address, "latest">>]
             queries == <<balance_query>> \o
                 [i \in 1..Len(erc20_addresses) |->
                    [id |-> i, method |-> "eth_call",
                     params |-> <<erc20_addresses[i],
                                  "0x70a08231" \o ZeroPadded64(Lower(SubSeq(address, 3, Len(address)))),
                                  "latest">>]]
         IN  \E responses \in NodeBatchAnswers(queries) :
                read' = ReadDone("get_balances", erc20_addresses, queries, 1,
                                   responses, get_balances_out(erc20_addresses, responses))
    /\ UNCHANGED <<cls, call>>

\* lines 753-760: the loop over the results, in the order received
get_transactions_out(results) ==
    Return([k \in 1..Len(results) |->
               IF Truthy(results[k].result) THEN Formatted(results[k].result) ELSE Null])

\* get_transactions, lines 746-760
get_transactions ==
    /\ read.pc = "idle"
    /\ \E tx_hashes \in Lists(Hashes) :
         IF IsEmpty(tx_hashes)
         THEN read' = ReadDone("get_transactions", tx_hashes, <<>>, 0, <<>>, Return(<<>>))
         ELSE LET payload == Payload("eth_getTransactionByHash",
                                     [i \in 1..Len(tx_hashes) |-> <<HexBytesHex(tx_hashes[i])>>])
              IN  \E results \in NodeBatchAnswers(payload) :
                     read' = ReadDone("get_transactions", tx_hashes, payload, 1, results,
                                      get_transactions_out(results))
    /\ UNCHANGED <<cls, call>>

\* lines 784-792
get_transaction_receipts_out(results) ==
    Return([k \in 1..Len(results) |->
               IF Truthy(results[k].result) /\ results[k].result.blockNumber # Null
               THEN Formatted(results[k].result) ELSE Null])

\* get_transaction_receipts, lines 777-792
get_transaction_receipts ==
    /\ read.pc = "idle"
    /\ \E tx_hashes \in Lists(Hashes) :
         IF IsEmpty(tx_hashes)
         THEN read' = ReadDone("get_transaction_receipts", tx_hashes, <<>>, 0, <<>>,
                                 Return(<<>>))
         ELSE LET payload == Payload("eth_getTransactionReceipt",
                                     [i \in 1..Len(tx_hashes) |-> <<HexBytesHex(tx_hashes[i])>>])
              IN  \E results \in NodeBatchAnswers(payload) :
                     read' = ReadDone("get_transaction_receipts", tx_hashes, payload, 1,
                        results, get_transaction_receipts_out(results))
    /\ UNCHANGED <<cls, call>>

\* lines 807-816; `del raw_block['extraData']` drops the field
get_blocks_out(results) ==
    Return([k \in 1..Len(results) |->
               IF Truthy(results[k].result)
               THEN Formatted([results[k].result EXCEPT !.extraData = FALSE])
               ELSE Null])

\* get_blocks, lines 800-816
get_blocks ==
    /\ read.pc = "idle"
    /\ \E block_numbers \in Lists(BlockNumbers), full_transactions \in {FALSE} :
         IF IsEmpty(block_numbers)
         THEN read' = ReadDone("get_blocks", block_numbers, <<>>, 0, <<>>, Return(<<>>))
         ELSE LET payload == Payload("eth_getBlockByNumber",
                                     [i \in 1..Len(block_numbers) |->
                                        <<hex(block_numbers[i]), full_transactions>>])
              IN  \E results \in NodeBatchAnswers(payload) :
                     read' = ReadDone("get_blocks", block_numbers, payload, 1, results,
                                      get_blocks_out(results))
    /\ UNCHANGED <<cls, call>>

(***************************************************************************)
(* ParityManager: trace decoding and the trace accessors.                  *)
(***************************************************************************)
\* _decode_trace_action, for the numeric fields
_decode_trace_action(action) ==
    [f \in DOMAIN action |->
        IF f \in {"gas", "value", "balance"} THEN int16(action[f]).value ELSE action[f]]

\* _decode_trace_result
_decode_trace_result(result) == [result EXCEPT !.gasUsed = int16(@).value]

\* the body of _decode_traces' loop for one well-formed trace
decode_trace(t) ==
    [f \in DOMAIN t |->
        IF f = "result" /\ Truthy(t[f]) THEN _decode_trace_result(t[f])
        ELSE IF f = "action" THEN _decode_trace_action(t[f])
        ELSE t[f]]

\* _decode_traces, lines 464-476
_decode_traces_requiring_result(traces) ==
    IF \E k \in 1..Len(traces) :
          \/ traces[k].type # "dict"
          \/ "result" \in DOMAIN traces[k] /\ ~Truthy(traces[k].result)
    THEN Raise("ParityTraceDecodeException", "Expected dictionary, but found unexpected trace")
    ELSE Return([k \in 1..Len(traces) |-> decode_trace(traces[k])])
_decode_traces(traces) ==
    IF \E k \in 1..Len(traces) : traces[k].type # "dict"
    THEN Raise("ParityTraceDecodeException", "Expected dictionary, but found unexpected trace")
    ELSE Return([k \in 1..Len(traces) |-> decode_trace(traces[k])])

\* lines 493-503 of trace_transactions, from result k on
RECURSIVE decode_results(_, _, _)
decode_results(results, k, traces) ==
    IF k > Len(results) THEN Return(traces)
    ELSE LET raw_tx == results[k].result
         IN  IF Truthy(raw_tx)
             THEN LET first == _decode_traces(raw_tx.items)
                      \* the except clause decodes the same raw_tx again
                      decoded_traces == IF first.kind = "raise"
                                        THEN _decode_traces(raw_tx.items) ELSE first
                  IN  IF decoded_traces.kind = "raise" THEN decoded_traces
                      ELSE decode_results(results, k + 1,
                               Append(traces, [type |-> "list", items |-> decoded_traces.value]))
             ELSE decode_results(results, k + 1, Append(traces, Null))

\* trace_transactions, lines 485-504
trace_transactions ==
    /\ read.pc = "idle"
    /\ \E tx_hashes \in Lists(Hashes) :
         IF IsEmpty(tx_hashes)
         THEN read' = ReadDone("trace_transactions", tx_hashes, <<>>, 0, <<>>, Return(<<>>))
         ELSE LET payload == Payload("trace_transaction",
                                     [i \in 1..Len(tx_hashes) |-> <<HexBytesHex(tx_hashes[i])>>])
              IN  \E results \in NodeBatchAnswers(payload) :
                     read' = ReadDone("trace_transactions", tx_hashes, payload, 1, results,
                                        decode_results(results, 1, <<>>))
    /\ UNCHANGED <<cls, call>>

\* the node's answers to trace_transaction / trace_filter
TraceLists(h) == UNION { [1..n -> TraceEntries(h)] : n \in 0..MaxTraces }

\* try: return _decode_traces(rpc()); except ParityTraceDecodeException:
\* return _decode_traces(rpc()) -- `responses` are the node's answers to the
\* calls made, in order
DecodedWithRetry(first, second) ==
    IF _decode_traces(first).kind = "return"
    THEN _decode_traces(first) ELSE _decode_traces(second)

\* a trace accessor's call: `posts` counts the RPC calls made
TraceDone(func, args, request, responses) ==
    ReadDone(func, args, <<request>>, Len(responses), responses,
             DecodedWithRetry(responses[1], responses[Len(responses)]))

\* trace_transaction, lines 478-483
trace_transaction ==
    /\ read.pc = "idle"
    /\ \E tx_hash \in Hashes :
         \E first \in TraceLists(tx_hash) :
            IF _decode_traces(first).kind = "return"
            THEN read' = TraceDone("trace_transaction", <<tx_hash>>, <<tx_hash>>, <<first>>)
            ELSE \E second \in TraceLists(tx_hash) :
                    read' = TraceDone("trace_transaction", <<tx_hash>>, <<tx_hash>>,
                                       <<first, second>>)
    /\ UNCHANGED <<cls, call>>

\* trace_filter, lines 577-596
\* `assert from_address or to_address` (line 577)
AtLeastOneNotNone(from_address, to_address) == from_address # Null \/ to_address # Null
AtLeastOneAddress(from_address, to_address) == Truthy(from_address) \/ Truthy(to_address)

trace_filter ==
    /\ read.pc = "idle"
    /\ \E from_block \in {0, 1}, to_block \in {Null, [type |-> "int", int |-> 5]},
          from_address \in {Null} \cup { [type |-> "list", items |-> a] :
                                           a \in {<<>>, <<"0xA">>} },
          to_address \in {Null} \cup { [type |-> "list", items |-> a] :
                                         a \in {<<>>, <<"0xB">>} } :
         LET args == [from_block |-> from_block, to_block |-> to_block,
                      from_address |-> from_address, to_address |-> to_address]
             parameters ==
                 [fromBlock |-> IF from_block # 0 THEN hex(from_block) ELSE "",
                  toBlock |-> IF Truthy(to_block) THEN hex(to_block.int) ELSE "",
                  fromAddress |-> IF Truthy(from_address) THEN from_address.items ELSE <<>>,
                  toAddress |-> IF Truthy(to_address) THEN to_address.items ELSE <<>>]
         IN  IF ~AtLeastOneAddress(from_address, to_address)
             THEN \* the assert fails
                  read' = ReadDone("trace_filter", args, <<>>, 0, <<>>,
                              Raise("AssertionError",
                                    "You must provide at least from_address or to_address"))
             ELSE \E first \in TraceLists("0x1a") :
                    IF _decode_traces(first).kind = "return"
                    THEN read' = TraceDone("trace_filter", args, parameters, <<first>>)
                    ELSE \E second \in TraceLists("0x1a") :
                            read' = TraceDone("trace_filter", args, parameters,
                                               <<first, second>>)
    /\ UNCHANGED <<cls, call>>

InitRead ==
    /\ cls = <<>>
    /\ call = <<>>
    /\ read = ReadIdle

NextRead ==
    \/ get_balances
    \/ get_transactions
    \/ get_transaction_receipts
    \/ get_blocks
    \/ trace_transactions
    \/ trace_transaction
    \/ trace_filter

SpecRead == InitRead /\ [][NextRead]_vars

(***************************************************************************)
(* Properties of the batched accessors and of the trace accessors.         *)
(***************************************************************************)
BatchedAccessors == {"get_balances", "get_transactions", "get_transaction_receipts",
                     "get_blocks", "trace_transactions"}

TraceAccessors == {"trace_transaction", "trace_filter", "trace_transactions"}

\* the responses put in the order of their ids
InIdOrder(responses) ==
    [i \in 1..Len(responses) |->
        CHOOSE r \in { responses[k] : k \in 1..Len(responses) } : r.id = i - 1]

\* what an accessor makes of a response list consumed position by position
OutOf(func, items, responses) ==
    CASE func = "get_balances" -> get_balances_out(items, responses)
      [] func = "get_transactions" -> get_transactions_out(responses)
      [] func = "get_transaction_receipts" -> get_transaction_receipts_out(responses)
      [] func = "get_blocks" -> get_blocks_out(responses)
      [] func = "trace_transactions" -> decode_results(responses, 1, <<>>)

\* C6 as stated: request i carries id i and the i-th element returned is
\* derived from the response whose id is i, in whatever order the node
\* returns the responses of the batch.
C6_ResultsFollowIds ==
    (read.pc = "done" /\ read.func \in BatchedAccessors /\ read.posts = 1) =>
        /\ \A i \in 1..Len(read.payload) : read.payload[i].id = i - 1
        /\ read.out = OutOf(read.func, read.items, InIdOrder(read.responses))

\* C7 as stated: every batched accessor given an empty input list returns an
\* empty result and makes no network call.
C7_EmptyInputNoCall ==
    (read.pc = "done" /\ read.func \in BatchedAccessors /\ read.items = <<>>) =>
        read.out = Return(<<>>) /\ read.posts = 0

\* C7 amended: get_transactions, get_transaction_receipts, get_blocks and
\* trace_transactions given an empty list return an empty list and make no
\* network call; get_balances given an empty token list still posts one batch
\* holding the native-balance query alone and returns that one entry.
C7_EmptyInputExceptBalances ==
    (read.pc = "done" /\ read.func \in BatchedAccessors /\ read.items = <<>>) =>
        IF read.func = "get_balances"
        THEN /\ read.posts = 1
             /\ Len(read.payload) = 1
             /\ read.payload[1].method = "eth_getBalance"
             /\ read.out.kind = "return"
             /\ Len(read.out.value) = 1
             /\ read.out.value[1].token_address = Null
        ELSE /\ read.out = Return(<<>>)
             /\ read.posts = 0
             /\ read.payload = <<>>

C7_Witness ==
    /\ read.pc = "done" /\ read.func = "get_blocks" /\ read.items = <<>>
    /\ read.posts = 0 /\ read.out = Return(<<>>)

\* the first decode of a trace accessor's call raised
FirstDecodeFailed ==
    IF read.func = "trace_transactions"
    THEN \E k \in 1..Len(read.responses) :
            /\ Truthy(read.responses[k].result)
            /\ _decode_traces(read.responses[k].result.items).kind = "raise"
    ELSE /\ read.posts >= 1
         /\ _decode_traces(read.responses[1]).kind = "raise"

\* C8 as stated: when a decode raises TraceDecodeException each trace
\* accessor re-issues the whole RPC call exactly once and decodes the new
\* response, so no call is issued more than twice and a malformed first
\* response followed by a well-formed one succeeds.
C8_RetryReissuesCall ==
    (read.pc = "done" /\ read.func \in TraceAccessors) =>
        /\ read.posts <= 2
        /\ FirstDecodeFailed =>
             /\ read.posts = 2
             /\ read.func # "trace_transactions" =>
                   read.out = _decode_traces(read.responses[2])

\* the integer a hex result of the node stands for
Stands(str) ==
    CASE str = "0x" -> 0
      [] str = "0x0" -> 0
      [] str = "0x1f" -> 31
      [] str = "0x2A" -> 42

\* C14: get_balances with N tokens posts one batch of N + 1 queries, the
\* native-balance query with id 0 and then a balanceOf call per token, in input
\* order, with ids 1..N; it returns N + 1 entries in that order, the first
\* with no token address and each token's labelled with it, the k-th balance
\* being the integer of the k-th result of the answer, 0 for a result '0x'.
C14_OneBatchOfBalances ==
    (read.pc = "done" /\ read.func = "get_balances") =>
        LET N == Len(read.items)
            queries == read.payload
            balances == read.out.value
        IN  /\ read.posts = 1
            /\ Len(queries) = N + 1
            /\ queries[1].id = 0 /\ queries[1].method = "eth_getBalance"
            /\ \A i \in 1..N :
                  /\ queries[i + 1].id = i
                  /\ queries[i + 1].method = "eth_call"
                  /\ queries[i + 1].params[1] = read.items[i]
                  /\ SubSeq(queries[i + 1].params[2], 1, 10) = "0x70a08231"
                  /\ Len(queries[i + 1].params[2]) = 74
            /\ Len(read.responses) = N + 1
            /\ read.out.kind = "return"
            /\ Len(balances) = N + 1
            /\ balances[1].token_address = Null
            /\ \A i \in 1..N :
                  balances[i + 1].token_address = [type |-> "str", str |-> read.items[i]]
            /\ \A k \in 1..(N + 1) :
                  balances[k].balance = Stands(read.responses[k].result.hex)

C14_Witness ==
    /\ read.pc = "done" /\ read.func = "get_balances"
    /\ Len(read.items) = 2 /\ read.posts = 1 /\ read.out.kind = "return"
    /\ read.responses[1].result.hex = "0x" /\ read.out.value[1].balance = 0
    /\ read.responses[2].result.hex = "0x2A" /\ read.out.value[2].balance = 42
    /\ read.responses[3].result.hex = "0x" /\ read.out.value[3].balance = 0
    /\ read.responses[3].id = 2

(***************************************************************************)
(* Erc20Manager: Transfer logs.  A 32-byte word (a topic, a word of data)  *)
(* is its hex string; a log is a record of blockNumber, topics and data.   *)
(***************************************************************************)
MaxTopics == 5    \* a log handed to the decoder has at most MaxTopics topics
MaxLogs == 2      \* eth_getLogs answers a query with at most MaxLogs logs

\* keccak('Transfer(address,address,uint256)')
TRANSFER_TOPIC == "0xddf252ad1be2c89b69c2b068fc378daa952ba7f163c4a11628f55a4df523b3ef"

\* keccak('Approval(address,address,uint256)'), the first topic of other logs
APPROVAL_TOPIC == "0x8c5be1e5ebec7d5bd14f71427d1e84f3dd0314c0f7b2291e5b200ac8c7c3b925"

WordA == "0x000000000000000000000000f5984365fca2e3bc7d2e020abb2c701df9070eb7"
WordB == "0x0000000000000000000000001df62f291b2e969fb0849d99d9ce41e2f137006e"
Word63 == "0x0000000000000000000000000000000000000000000000000000000000000063"
Word1f40 == "0x0000000000000000000000000000000000000000000000000000000000001f40"

\* Web3.toChecksumAddress on the addresses of the model
toChecksumAddress(address) ==
    CASE address = "0xf5984365fca2e3bc7d2e020abb2c701df9070eb7" ->
           "0xf5984365FcA2e3bc7D2E020AbB2c701DF9070eB7"
      [] address = "0x1df62f291b2e969fb0849d99d9ce41e2f137006e" ->
           "0x1dF62f291b2E969fB0849d99D9Ce41e2F137006e"
      [] OTHER -> address    \* no letter in it

\* eth_abi's decoding of an address from a 32-byte word: its last 20 bytes
decode_address(word) == "0x" \o SubSeq(word, 27, 66)

\* eth_abi.decode_single('uint256', HexBytes(data)): the first 32 bytes, big
\* endian; fewer than 32 bytes cannot be decoded
decode_uint256(data) ==
    IF Len(data) - 2 < 64
    THEN Raise("InsufficientDataBytes", "Tried to read 32 bytes")
    ELSE Return(HexValue(SubSeq(data, 3, 66), 64))

\* lines 173-182
_decode_erc20_log(data, topics) ==
    IF topics # <<>> /\ topics[1] = TRANSFER_TOPIC /\ Len(topics) = 3
    THEN LET value == decode_uint256(data)
         IN  IF value.kind = "raise" THEN value
             ELSE Return([type |-> "dict",
                          from |-> toChecksumAddress(decode_address(topics[2])),
                          to |-> toChecksumAddress(decode_address(topics[3])),
                          value |-> value.value])
    ELSE Return(Null)

\* lines 184-192
_decode_erc721_log(topics) ==
    IF topics # <<>> /\ topics[1] = TRANSFER_TOPIC /\ Len(topics) = 4
    THEN Return([type |-> "dict",
                 from |-> toChecksumAddress(decode_address(topics[2])),
                 to |-> toChecksumAddress(decode_address(topics[3])),
                 tokenId |-> HexValue(SubSeq(topics[4], 3, 66), 64)])
    ELSE Return(Null)

\* lines 167-171
_decode_erc20_or_erc721_log(data, topics) ==
    LET decoded == _decode_erc20_log(data, topics)
    IN  IF decoded.kind = "raise" THEN decoded
        ELSE IF ~Truthy(decoded.value) THEN _decode_erc721_log(topics)
        ELSE decoded

\* the logs handed to the decoder: any number of topics up to MaxTopics, the
\* first a signature, the next two addresses, the others small integers
TopicLists ==
    {<<>>} \cup
    UNION { { <<t0>> \o rest :
                t0 \in {TRANSFER_TOPIC, APPROVAL_TOPIC},
                rest \in { r \in [1..(n - 1) -> {WordA, WordB, Word63, Word1f40}] :
                             \A i \in 1..(n - 1) :
                                IF i <= 2 THEN r[i] # Word1f40
                                ELSE r[i] \in {Word63, Word1f40} } }
            : n \in 1..MaxTopics }

LogData == {"0x", Word63, Word1f40, Word1f40 \o SubSeq(Word63, 3, 66)}

decode_log ==
    /\ read.pc = "idle"
    /\ \E topics \in TopicLists, data \in LogData :
          read' = ReadDone("_decode_erc20_or_erc721_log",
                           <<[data |-> data, topics |-> topics]>>, <<>>, 0, <<>>,
                           _decode_erc20_or_erc721_log(data, topics))
    /\ UNCHANGED <<cls, call>>

\* HexBytes(eth_abi.encode_single('address', address)).hex()
encode_address(address) ==
    "0x000000000000000000000000" \o Lower(SubSeq(address, 3, 42))

\* the logs on the chain that touch the address of the model
ChainLogs ==
    { [blockNumber |-> b, topics |-> l.topics, data |-> l.data] :
        b \in {5, 7},
        l \in { [topics |-> <<TRANSFER_TOPIC, WordA, WordB>>, data |-> Word1f40],
                [topics |-> <<TRANSFER_TOPIC, WordB, WordA>>, data |-> Word63],
                [topics |-> <<TRANSFER_TOPIC, WordA, WordA, Word63>>, data |-> "0x"],
                [topics |-> <<TRANSFER_TOPIC, WordA>>, data |-> Word1f40 \o SubSeq(Word63, 3, 66)],
                [topics |-> <<TRANSFER_TOPIC, WordB, WordA>>, data |-> "0x"] } }

\* whether a log passes eth_getLogs' topics filter: position by position, None
\* lets anything through, a list any of its members
MatchesTopics(log, topics) ==
    /\ Len(log.topics) >= Len(topics)
    /\ \A i \in 1..Len(topics) :
          \/ topics[i] = Null
          \/ topics[i].type = "str" /\ log.topics[i] = topics[i].str
          \/ topics[i].type = "list" /\
                \E k \in 1..Len(topics[i].items) : log.topics[i] = topics[i].items[k]

\* slow_w3.eth.getLogs(parameters): up to MaxLogs matching logs, in ascending
\* block order as the node gives them
getLogs(parameters) ==
    { logs \in UNION { [1..n -> { l \in ChainLogs : MatchesTopics(l, parameters.topics) }]
                         : n \in 0..MaxLogs } :
        \A i, j \in 1..Len(logs) : i < j => logs[i].blockNumber <= logs[j].blockNumber }

\* erc20_events.sort(key=lambda x: x['blockNumber']): list.sort is stable
RECURSIVE InsertByBlockNumber(_, _)
InsertByBlockNumber(sorted, event) ==
    IF sorted = <<>> THEN <<event>>
    ELSE IF sorted[Len(sorted)].blockNumber <= event.blockNumber
    THEN Append(sorted, event)
    ELSE Append(InsertByBlockNumber(SubSeq(sorted, 1, Len(sorted) - 1), event),
                sorted[Len(sorted)])

RECURSIVE SortedByBlockNumber(_)
SortedByBlockNumber(events) ==
    IF events = <<>> THEN <<>>
    ELSE InsertByBlockNumber(SortedByBlockNumber(SubSeq(events, 1, Len(events) - 1)),
                             events[Len(events)])

\* all_events.extend(logs), line 322
ExtendedWithNew(all_events, logs) ==
    all_events \o SelectSeq(logs, LAMBDA l : \A i \in 1..Len(all_events) : all_events[i] # l)
Extended(all_events, logs) == all_events \o logs

\* lines 324-329: decode each event, keep those whose args are truthy
RECURSIVE erc20_events_of(_, _, _)
erc20_events_of(all_events, k, erc20_events) ==
    IF k > Len(all_events) THEN Return(erc20_events)
    ELSE LET event == all_events[k]
             args == _decode_erc20_or_erc721_log(event.data, event.topics)
         IN  IF args.kind = "raise" THEN args
             ELSE erc20_events_of(all_events, k + 1,
                    IF Truthy(args.value)
                    THEN Append(erc20_events,
                                [blockNumber |-> event.blockNumber, topics |-> event.topics,
                                 data |-> event.data, args |-> args.value])
                    ELSE erc20_events)

\* get_total_transfer_history, lines 259-331, with to_block and token_address
\* left at None
get_total_transfer_history ==
    /\ read.pc = "idle"
    /\ LET addresses == <<"0xf5984365FcA2e3bc7D2E020AbB2c701DF9070eB7">>
           topic_0 == [type |-> "str", str |-> TRANSFER_TOPIC]
           addresses_encoded ==
               [type |-> "list",
                items |-> [i \in 1..Len(addresses) |-> encode_address(addresses[i])]]
           topics_from == <<topic_0, addresses_encoded>>
           topics_to == <<topic_0, Null, addresses_encoded>>
           queries == << [fromBlock |-> 0, topics |-> topics_to],
                         [fromBlock |-> 0, topics |-> topics_from] >>
       IN  \E to_logs \in getLogs(queries[1]), from_logs \in getLogs(queries[2]) :
              LET all_events == Extended(Extended(<<>>, to_logs), from_logs)
                  erc20_events == erc20_events_of(all_events, 1, <<>>)
              IN  read' = ReadDone("get_total_transfer_history", addresses, queries, 2,
                                   <<to_logs, from_logs>>,
                                   IF erc20_events.kind = "raise" THEN erc20_events
                                   ELSE Return(SortedByBlockNumber(erc20_events.value)))
    /\ UNCHANGED <<cls, call>>

\* what get_name and get_symbol give back: the decoded string, eth_abi's
\* InsufficientDataBytes when the answer cannot be decoded (no such contract),
\* the node's error as a ValueError, or a failure of the transport
StringCallOutcomes(str) ==
    { Return(str), Raise("InsufficientDataBytes", "Tried to read 32 bytes"),
      Raise("ValueError", "VM execution error"), Raise("ConnectionError", "") }

\* what get_decimals gives back: contract.functions.decimals().call() decodes
\* the answer itself and raises web3's BadFunctionCallOutput, which is not a
\* ValueError, when it cannot
DecimalsCallOutcomes ==
    { Return(18), Return(0), Raise("BadFunctionCallOutput", "Could not decode contract function call"),
      Raise("ValueError", "VM execution error"), Raise("ConnectionError", "") }

\* `except (InsufficientDataBytes, ValueError) as e: raise InvalidERC20Info from e`
Caught(e) == e.type \in {"InsufficientDataBytes", "ValueError"}

\* get_info's try block, given the answers of the calls it made
get_info_out(calls) ==
    LET last == calls[Len(calls)]
    IN  IF last.kind = "raise"
        THEN IF Caught(last) THEN Raise("InvalidERC20Info", "") ELSE last
        ELSE Return([name |-> calls[1].value, symbol |-> calls[2].value,
                     decimals |-> calls[3].value])

\* get_info, lines 244-257
get_info ==
    /\ read.pc = "idle"
    /\ \E erc20_address \in Tokens :
       \E name \in StringCallOutcomes("Dai"), symbol \in StringCallOutcomes("DAI"),
          decimals \in DecimalsCallOutcomes :
          LET calls == IF name.kind = "raise" THEN <<name>>
                       ELSE IF symbol.kind = "raise" THEN <<name, symbol>>
                       ELSE <<name, symbol, decimals>>
          IN  read' = ReadDone("get_info", <<erc20_address>>, <<>>, Len(calls), calls,
                               get_info_out(calls))
    /\ UNCHANGED <<cls, call>>

InitErc20 ==
    /\ cls = <<>>
    /\ call = <<>>
    /\ read = ReadIdle

NextErc20 == decode_log \/ get_total_transfer_history \/ get_info

SpecErc20 == InitErc20 /\ [][NextErc20]_vars

(***************************************************************************)
(* Properties of the Transfer decoder and of the transfer history.         *)
(***************************************************************************)
\* C15 as stated: for every log the decoder returns an ERC20 transfer {from,
\* to, value} exactly when topic 0 is the Transfer signature and there are
\* 3 topics, an ERC721 transfer {from, to, tokenId} exactly when topic 0 is
\* the signature and there are 4 topics, and None, raising nothing, otherwise.
C15_DecodesByTopicCount ==
    (read.pc = "done" /\ read.func = "_decode_erc20_or_erc721_log") =>
        LET topics == read.items[1].topics
            transfer == topics # <<>> /\ topics[1] = TRANSFER_TOPIC
        IN  /\ read.out.kind = "return"
            /\ (transfer /\ Len(topics) = 3) =>
                  /\ read.out.value # Null
                  /\ DOMAIN read.out.value = {"type", "from", "to", "value"}
            /\ (transfer /\ Len(topics) = 4) =>
                  /\ read.out.value # Null
                  /\ DOMAIN read.out.value = {"type", "from", "to", "tokenId"}
            /\ ~(transfer /\ Len(topics) \in {3, 4}) => read.out.value = Null

\* whether a log has the shape of a transfer: the signature and 3 or 4 topics
IsTransferLog(log) ==
    /\ log.topics # <<>> /\ log.topics[1] = TRANSFER_TOPIC
    /\ Len(log.topics) \in {3, 4}

\* a log as the node delivered it, without the decoded args
Delivered(event) ==
    [blockNumber |-> event.blockNumber, topics |-> event.topics, data |-> event.data]

\* C16 as stated: get_total_transfer_history returns exactly the logs of its
\* two queries that are transfers, the others being discarded, in
\* non-decreasing block number, logs of one block in the order delivered.
C16_HistoryIsDecodedAndStablySorted ==
    (read.pc = "done" /\ read.func = "get_total_transfer_history") =>
        LET delivered == read.responses[1] \o read.responses[2]
            transfers == SelectSeq(delivered, IsTransferLog)
            n == Len(transfers)
        IN  /\ read.posts = 2
            /\ read.out.kind = "return"
            /\ Len(read.out.value) = n
            /\ \E p \in Orderings(n) :
                  /\ \A i \in 1..n : Delivered(read.out.value[i]) = transfers[p[i]]
                  /\ \A i, j \in 1..n : i < j =>
                        \/ read.out.value[i].blockNumber < read.out.value[j].blockNumber
                        \/ /\ read.out.value[i].blockNumber = read.out.value[j].blockNumber
                           /\ p[i] < p[j]

\* whether an address list was supplied: neither None nor empty
Supplied(addresses) == addresses # Null /\ addresses.items # <<>>

\* C17: trace_filter given neither from_address nor to_address, each missing
\* or empty, fails with the assertion's error and no request to the node; given
\* one of them at least it sends the trace query, carrying what was supplied.
C17_TraceFilterNeedsAnAddress ==
    (read.pc = "done" /\ read.func = "trace_filter") =>
        LET args == read.items
        IN  IF Supplied(args.from_address) \/ Supplied(args.to_address)
            THEN /\ read.posts >= 1
                 /\ read.out.type # "AssertionError"
                 /\ read.payload[1].fromAddress =
                       (IF Supplied(args.from_address) THEN args.from_address.items ELSE <<>>)
                 /\ read.payload[1].toAddress =
                       (IF Supplied(args.to_address) THEN args.to_address.items ELSE <<>>)
            ELSE /\ read.posts = 0 /\ read.responses = <<>> /\ read.payload = <<>>
                 /\ read.out.kind = "raise" /\ read.out.type = "AssertionError"

C17_Witness ==
    /\ read.pc = "done" /\ read.func = "trace_filter"
    /\ read.items.from_address = [type |-> "list", items |-> <<>>]
    /\ read.items.to_address = Null
    /\ read.posts = 0 /\ read.out.type = "AssertionError"

\* the integer a hex quantity of a trace stands for
Quantity(str) ==
    CASE str = "0x0" -> 0
      [] str = "0x3f" -> 63
      [] str = "0x5208" -> 21000
      [] str = "0x4c40d" -> 312333

\* C18: given entries that are all records, _decode_traces raises nothing and
\* returns one entry per entry given, in the same order, each with its action
\* decoded; the result is decoded when the entry has one that is not null, is
\* left null when it is null (a suicide) and is left out when the entry has
\* none (an errored call).
C18_DecodesEveryEntryInOrder ==
    ( /\ read.pc = "done" /\ read.func \in {"trace_transaction", "trace_filter"}
      /\ read.responses # <<>>
      /\ \A k \in 1..Len(read.responses[1]) : read.responses[1][k].type = "dict" ) =>
        LET traces == read.responses[1]
            decoded == read.out.value
        IN  /\ read.out.kind = "return"
            /\ Len(decoded) = Len(traces)
            /\ \A k \in 1..Len(traces) :
                  /\ DOMAIN decoded[k] = DOMAIN traces[k]
                  /\ decoded[k].transactionHash = traces[k].transactionHash
                  /\ \A f \in DOMAIN traces[k].action \ {"type"} :
                        decoded[k].action[f] = Quantity(traces[k].action[f])
                  /\ "result" \in DOMAIN traces[k] =>
                        IF traces[k].result = Null
                        THEN decoded[k].result = Null
                        ELSE decoded[k].result.gasUsed = Quantity(traces[k].result.gasUsed)

C18_Witness ==
    /\ read.pc = "done" /\ read.func = "trace_transaction"
    /\ Len(read.responses) = 1 /\ Len(read.responses[1]) = 2
    /\ "result" \in DOMAIN read.responses[1][1] /\ read.responses[1][1].result = Null
    /\ "result" \notin DOMAIN read.responses[1][2]
    /\ read.out.kind = "return" /\ Len(read.out.value) = 2
    /\ read.out.value[1].result = Null /\ read.out.value[1].action.balance = 0
    /\ "result" \notin DOMAIN read.out.value[2]

\* C19 as stated: when one of get_info's calls name, symbol, decimals fails
\* (the transport aside), whichever it is, get_info raises InvalidERC20Info, no
\* call is made after the failed one and no Erc20Info is returned; when none
\* fails it returns the three values.
C19_AnyFailureIsInvalidERC20Info ==
    (read.pc = "done" /\ read.func = "get_info") =>
        LET calls == read.responses
            failed == { k \in 1..Len(calls) : calls[k].kind = "raise" }
        IN  IF failed = {}
            THEN /\ Len(calls) = 3
                 /\ read.out = Return([name |-> calls[1].value, symbol |-> calls[2].value,
                                       decimals |-> calls[3].value])
            ELSE /\ failed = {Len(calls)}
                 /\ read.out.kind = "raise"
                 /\ calls[Len(calls)].type # "ConnectionError" =>
                       read.out.type = "InvalidERC20Info"

(***************************************************************************)
(* gnosis/safe/signatures.py.  A byte string is a sequence of 0..255.      *)
(***************************************************************************)
MaxSignatures == 3    \* signatures_to_bytes is given at most MaxSignatures tuples

\* int.to_bytes(length, 'big') of an n that fits
RECURSIVE to_bytes(_, _)
to_bytes(n, length) ==
    IF length = 0 THEN <<>> ELSE Append(to_bytes(n \div 256, length - 1), n % 256)

\* int.from_bytes(bytes, 'big')
RECURSIVE from_bytes(_)
from_bytes(bytes) ==
    IF bytes = <<>> THEN 0
    ELSE 256 * from_bytes(SubSeq(bytes, 1, Len(bytes) - 1)) + bytes[Len(bytes)]

\* a slice bytes[lo:hi] (0-based, hi excluded, cut at the end of the bytes)
Slice(bytes, lo, hi) ==
    SubSeq(bytes, lo + 1, IF hi < Len(bytes) THEN hi ELSE Len(bytes))

\* signature_to_bytes, lines 22-34: vrs is <<v, r, s>>
signature_to_bytes_v_first(vrs) ==
    to_bytes(vrs[1], 1) \o to_bytes(vrs[2], 32) \o to_bytes(vrs[3], 32)
signature_to_bytes(vrs) ==
    to_bytes(vrs[2], 32) \o to_bytes(vrs[3], 32) \o to_bytes(vrs[1], 1)

\* signatures_to_bytes, lines 37-43: b''.join of the encodings
RECURSIVE signatures_to_bytes(_)
signatures_to_bytes(signatures) ==
    IF signatures = <<>> THEN <<>>
    ELSE signature_to_bytes(Head(signatures)) \o signatures_to_bytes(Tail(signatures))

\* signature_split, lines 7-19
signature_split(signatures, pos) ==
    LET signature_pos == 65 * pos
    IN  IF 64 + signature_pos >= Len(signatures)
        THEN Raise("IndexError", "index out of range")
        ELSE Return(<< signatures[64 + signature_pos + 1],
                       from_bytes(Slice(signatures, signature_pos, 32 + signature_pos)),
                       from_bytes(Slice(signatures, 32 + signature_pos, 64 + signature_pos)) >>)

\* the tuples of the model: v of one byte, r and s of up to three bytes
Signatures == { <<v, r, s>> : v \in {0, 27, 255}, r \in {0, 16777215}, s \in {1, 65536} }

SigIdle == [pc |-> "idle", func |-> "", signatures |-> <<>>, bytes |-> <<>>,
            pos |-> 0, out |-> Return(<<>>)]

SignatureToBytes ==
    /\ read.pc = "idle"
    /\ \E vrs \in Signatures :
          read' = [SigIdle EXCEPT !.pc = "encoded", !.func = "signature_to_bytes",
                                  !.signatures = <<vrs>>,
                                  !.bytes = signature_to_bytes(vrs)]
    /\ UNCHANGED <<cls, call>>

SignaturesToBytes ==
    /\ read.pc = "idle"
    /\ \E signatures \in UNION { [1..n -> Signatures] : n \in 0..MaxSignatures } :
          read' = [SigIdle EXCEPT !.pc = "encoded", !.func = "signatures_to_bytes",
                                  !.signatures = signatures,
                                  !.bytes = signatures_to_bytes(signatures)]
    /\ UNCHANGED <<cls, call>>

\* signature_split of the bytes just made, at a position up to one past the end
SignatureSplit ==
    /\ read.pc = "encoded"
    /\ \E pos \in 0..Len(read.signatures) :
          read' = [read EXCEPT !.pc = "split", !.pos = pos,
                               !.out = signature_split(read.bytes, pos)]
    /\ UNCHANGED <<cls, call>>

InitSignatures ==
    /\ cls = <<>>
    /\ call = <<>>
    /\ read = SigIdle

NextSignatures == SignatureToBytes \/ SignaturesToBytes \/ SignatureSplit

SpecSignatures == InitSignatures /\ [][NextSignatures]_vars

\* C20: the bytes made of n signatures are 65 * n long, signature i (from 0)
\* filling bytes 65i..65i+64 with r on 32 bytes, s on 32 bytes and v on one,
\* all big endian; and signature_split of them at i gives back the i-th
\* tuple (v, r, s).
C20_RoundTrip ==
    /\ read.pc \in {"encoded", "split"} =>
          /\ Len(read.bytes) = 65 * Len(read.signatures)
          /\ \A i \in 0..(Len(read.signatures) - 1) :
                LET vrs == read.signatures[i + 1]
                IN  /\ read.bytes[65 * i + 65] = vrs[1]
                    /\ \A k \in 1..29 : /\ read.bytes[65 * i + k] = 0
                                        /\ read.bytes[65 * i + 32 + k] = 0
                    /\ read.bytes[65 * i + 30] = vrs[2] \div 65536
                    /\ read.bytes[65 * i + 31] = (vrs[2] \div 256) % 256
                    /\ read.bytes[65 * i + 32] = vrs[2] % 256
                    /\ read.bytes[65 * i + 62] = vrs[3] \div 65536
                    /\ read.bytes[65 * i + 63] = (vrs[3] \div 256) % 256
                    /\ read.bytes[65 * i + 64] = vrs[3] % 256
    /\ (read.pc = "split" /\ read.pos < Len(read.signatures)) =>
          read.out = Return(read.signatures[read.pos + 1])

C20_Witness ==
    /\ read.pc = "split" /\ read.func = "signatures_to_bytes"
    /\ Len(read.signatures) = 3 /\ Len(read.bytes) = 195 /\ read.pos = 2
    /\ read.signatures[3] = <<255, 16777215, 65536>>
    /\ read.signatures[2] # read.signatures[3]
    /\ read.out = Return(<<255, 16777215, 65536>>)

(***************************************************************************)
(* Further properties of send_unsigned_transaction.                        *)
(***************************************************************************)
InLoop(s) == s.pc \in {"loop", "replacement_underpriced", "invalid_nonce"}

\* C21: from the first pass of the loop on number_errors is in 0..5 and is 5
\* less the InvalidNonce retries made, so the loop condition holds at every
\* pass; a step changes it only by the InvalidNonce handler's retry, by one,
\* and a ReplacementUnderpriced retry leaves it as it is.
C21_BudgetStaysInRange ==
    /\ [](\A c \in DOMAIN call :
            LET s == call[c]
            IN  (InLoop(s) \/ s.attempts >= 1) =>
                  /\ s.number_errors \in 0..InitialNumberErrors
                  /\ s.number_errors >= 0
                  /\ s.attempts = 0 => s.number_errors = InitialNumberErrors
                  /\ s.number_errors = InitialNumberErrors
                        - (IF s.pc \in {"invalid_nonce", "raised"} /\ s.last.kind = "raise"
                              /\ s.last.type = "InvalidNonce"
                           THEN s.in_fails - 1 ELSE s.in_fails))
    /\ [][\A c \in DOMAIN call :
            InLoop(call[c]) =>
               /\ call'[c].number_errors =
                     IF call[c].pc = "invalid_nonce" /\ call'[c].pc = "loop"
                     THEN call[c].number_errors - 1
                     ELSE call[c].number_errors
               /\ InLoop(call'[c]) \/ Finished(call'[c])]_vars

C21_Witness ==
    \E c \in DOMAIN call :
        /\ call[c].pc = "loop" /\ call[c].number_errors = 0
        /\ call[c].in_fails = InitialNumberErrors /\ call[c].ru_fails = 2
        /\ call[c].attempts = 7

\* mk_contract_address(tx['from'], tx['nonce']) as deploy_and_initialize_contract
\* computes it from the dict it passed, once the call has returned
mk_contract_address(sender, nonce) == <<"contract", sender, nonce>>

\* C22: when the call returns a hash the caller's tx holds the nonce the last
\* attempt carried, which is the one last fetched, refetched or bumped (or the
\* caller's own when none was), and the hash is that transaction's; so the
\* contract address computed from the dict is that of the transaction sent.
C22_RecordHoldsNonceSent ==
    \A c \in DOMAIN call :
        LET s == call[c]
        IN  s.pc = "returned" =>
              /\ s.sent # None /\ s.tx.nonce = s.sent
              /\ s.out = Return(TxHash(s.address, s.tx.nonce[1]))
              /\ (s.refetches = 0 /\ s.given.nonce # None) => s.tx.nonce = s.given.nonce
              /\ (s.refetches = 0 /\ s.given.nonce = None) => s.tx.nonce = s.fetched
              /\ (s.refetches >= 1 /\ s.e.type = "InvalidNonce") => s.tx.nonce = s.fetched
              /\ (s.refetches >= 1 /\ s.e.type = "ReplacementTransactionUnderpriced") =>
                    /\ s.tx.nonce[1] >= s.fetched[1]
                    /\ s.tx.nonce[1] > s.current_nonce
              /\ mk_contract_address(s.address, s.tx.nonce[1]) =
                    mk_contract_address(s.address, s.sent[1])

C22_Witness ==
    \E c \in DOMAIN call :
        /\ call[c].pc = "returned" /\ call[c].private_key # ""
        /\ call[c].given.nonce = Some(0)
        /\ call[c].refetches = 2 /\ call[c].in_fails = 1 /\ call[c].ru_fails = 1
        /\ call[c].tx.nonce = Some(2) /\ call[c].sent = Some(2)
        /\ call[c].last.type = "TransactionAlreadyImported"

\* how many times a log occurs in a list of logs or of events
Occurrences(log, events) ==
    Cardinality({ i \in 1..Len(events) : Delivered(events[i]) = log })

\* C23: when get_total_transfer_history returns, its result has as many
\* entries as the `to` query and the `from` query delivered transfers, each
\* occurring as many times as the two queries delivered it; a transfer
\* delivered by both is there twice.
C23_NoDeduplication ==
    ( /\ read.pc = "done" /\ read.func = "get_total_transfer_history"
      /\ read.out.kind = "return" ) =>
        LET to_logs == read.responses[1]
            from_logs == read.responses[2]
        IN  /\ Len(read.out.value) = Len(SelectSeq(to_logs, IsTransferLog))
                                     + Len(SelectSeq(from_logs, IsTransferLog))
            /\ \A log \in { l \in ChainLogs : IsTransferLog(l) } :
                  Occurrences(log, read.out.value) =
                      Occurrences(log, to_logs) + Occurrences(log, from_logs)

C23_Witness ==
    /\ read.pc = "done" /\ read.func = "get_total_transfer_history"
    /\ read.out.kind = "return" /\ Len(read.out.value) = 2
    /\ Len(read.responses[1]) = 1 /\ read.responses[2] = read.responses[1]
    /\ read.responses[1][1].topics[2] = read.responses[1][1].topics[3]
    /\ Delivered(read.out.value[1]) = Delivered(read.out.value[2])

\* C24: with a public key and no private key every attempt sets tx['from'] to
\* that address and goes unsigned through send_transaction, and an
\* AlreadyImported failure of it is raised to the caller; with a private key,
\* a public key given or not, every attempt is signed and sent raw for the
\* private key's address and tx['from'] is left as the caller passed it.
C24_PathFollowsTheKeys ==
    \A c \in DOMAIN call :
        LET s == call[c]
        IN  s.attempts >= 1 =>
              IF s.private_key # ""
              THEN /\ s.raw
                   /\ s.address = private_key_to_address(s.private_key)
                   /\ s.tx.from = s.given.from
                   /\ s.last.kind = "return" =>
                         s.out = Return(TxHash(private_key_to_address(s.private_key),
                                               s.sent[1]))
              ELSE /\ s.public_key # ""
                   /\ ~s.raw
                   /\ s.address = s.public_key /\ s.tx.from = s.public_key
                   /\ s.last.kind = "return" =>
                         s.out = Return(TxHash(s.public_key, s.sent[1]))
                   /\ (s.last.kind = "raise" /\ s.last.type = "TransactionAlreadyImported") =>
                         /\ s.pc = "raised"
                         /\ s.out = s.last

C24_Witness ==
    \E c \in DOMAIN call :
        /\ call[c].private_key = "" /\ call[c].public_key = "0xB"
        /\ call[c].retry /\ call[c].attempts = 2 /\ call[c].tx.from = "0xB"
        /\ call[c].last.kind = "raise" /\ call[c].last.type = "TransactionAlreadyImported"
        /\ call[c].pc = "raised" /\ call[c].out.type = "TransactionAlreadyImported"

====
